---- MODULE Spec2Model ----
(***************************************************************************)
(* Model of the MCP client plugin: the ConnectionRegistry (registry.rs)    *)
(* with its two mutex-guarded maps, and the MCPProcess session             *)
(* (process.rs) with its child process, its pipes and its id-correlated    *)
(* read loop.  Registry calls run on concurrent threads and are cut into   *)
(* steps at the points where other threads or the child can interleave.    *)
(***************************************************************************)
EXTENDS Integers, Sequences, FiniteSets, TLC

\* ------------------------------------------------------------------ bounds
\* Total number of Registry calls made in one behaviour.
MaxCalls == 3
\* Number of lines a child writes to its stdout during one read_response.
MaxLines == 2

Threads == {"t1", "t2"}
ServerIds == {"x", "y"}
\* Commands that spawn, and a command that is not on the PATH.
GoodCommands == {"A", "B"}
BadCommands == {"missing"}
Commands == GoodCommands \cup BadCommands

VARIABLES
    processes,    \* registry.processes: server id -> MCPProcess
    connections,  \* registry.connections: server id -> ConnectionInfo
    procLock,     \* holder of the processes mutex, or "none"
    children,     \* the child processes spawned so far, by spawn order
    events,       \* the events handed to the event channel, in order
    th,           \* per thread: the call it runs and its local variables
    calls,        \* number of calls started
    disconnected, \* ids whose disconnect returned Ok, no connect called since
    snap          \* key sets saved at the last connect call (history)

vars == <<processes, connections, procLock, children, events, th, calls,
          disconnected, snap>>

\* ------------------------------------------------------------ stdout lines
\* A line of the child's stdout.  kind: "blank" (empty after trim), "text"
\* (not JSON), "badutf8" (read_line fails), "json".  A JSON line has an id
\* field that is absent, a u64 number, or another JSON value (a string, a
\* negative number), and a body: a result field, an error field, both or
\* neither.
Line(k, tag, n, b) == [kind |-> k, idtag |-> tag, idnum |-> n, body |-> b]
NoLine == Line("none", "absent", 0, "neither")
Bodies == {"result", "error", "both", "neither"}
RespIds == 0..MaxCalls
JsonLines ==
    {Line("json", "absent", 0, b) : b \in Bodies}
    \cup {Line("json", "other", 0, b) : b \in Bodies}
    \cup {Line("json", "number", n, b) : n \in RespIds, b \in Bodies}
AllLines ==
    {Line("blank", "absent", 0, "neither"), Line("text", "absent", 0, "neither"),
     Line("badutf8", "absent", 0, "neither")} \cup JsonLines

\* serde_json Value::as_u64 on the id field: a set with the number, or empty.
as_u64(l) == IF l.idtag = "number" THEN {l.idnum} ELSE {}

\* The test of read_response for "this is the response we are looking for".
IsMatch_AnyId(l, expected_id) == l.kind = "json" /\ l.idtag # "absent"
IsMatch(l, expected_id) ==
    /\ l.kind = "json"
    /\ l.idtag # "absent"
    /\ as_u64(l) = {expected_id}

\* ---------------------------------------------------------------- sessions
\* MCPProcess::new: no child, no pipes, counter 0, nothing pending.
NewProcess ==
    [process |-> 0, stdin |-> FALSE, stdout |-> FALSE, stderr_receiver |-> FALSE,
     message_counter |-> 0, pending_requests |-> {}]

\* MCPProcess::start after a successful spawn of child p.
Started(s, p) ==
    [s EXCEPT !.process = p, !.stdin = TRUE, !.stdout = TRUE, !.stderr_receiver = TRUE]

\* MCPProcess::stop, on the session: the child handle is taken and both
\* pipes are dropped; the stderr receiver and the counter are left alone.
stop_PipesLater(s) ==
    IF s.process # 0 THEN [s EXCEPT !.process = 0]
    ELSE [s EXCEPT !.stdin = FALSE, !.stdout = FALSE]
stop(s) == [s EXCEPT !.process = 0, !.stdin = FALSE, !.stdout = FALSE]

\* A u32 is written as the integer with the same 32 bits in two's
\* complement: v itself below 2^31, and v - 2^32 from 2^31 on (2^32 - 1 is
\* written -1).  I32Max is the largest value written as itself.
I32Max == 2147483647
\* AtomicU32::fetch_add(1): the addition wraps around.
wrapping_add(c) == IF c = I32Max THEN (-I32Max) - 1 ELSE c + 1
\* a < b on u32 values.
U32Less(a, b) == IF (a >= 0) = (b >= 0) THEN a < b ELSE a >= 0

\* next_message_id: returns s.message_counter and leaves the session so.
next_message_id_Same(s) == s
next_message_id(s) == [s EXCEPT !.message_counter = wrapping_add(@)]

\* A child that has been waited for: the process and its pipes are gone.
Reaped(c) == [c EXCEPT !.state = "reaped", !.out = <<>>, !.inp = <<>>]

\* MCPProcess::stop, on the child: kill, then wait.
KillAndWait_Leak(ch, s) == ch
KillAndWait(ch, s) ==
    IF s.process = 0 THEN ch
    ELSE [ch EXCEPT ![s.process] = Reaped(@)]

\* Drop for MCPProcess: stop() once more, on whatever the session holds.
drop(ch, s) == KillAndWait(ch, s)

\* Child::try_wait inside check_process_status: reaps a child that has exited.
TryWait(ch, s) ==
    IF s.process # 0 /\ ch[s.process].state = "exited"
    THEN [ch EXCEPT ![s.process] = Reaped(@)]
    ELSE ch

check_process_status_HasHandle(ch, s) == s.process # 0
\* check_process_status: Ok(true) iff there is a child and it has not exited.
check_process_status(ch, s) == s.process # 0 /\ ch[s.process].state = "running"

\* send_message_sync that goes by the child alone, not by the stdin pipe.
SendResult_NoPipeCheck(ch, s) ==
    IF s.process # 0 /\ ch[s.process].state = "running" THEN "Ok" ELSE "WRITE_FAILED"

\* send_message_sync: the error code, or "Ok".
SendResult(ch, s) ==
    IF ~s.stdin THEN "NO_STDIN"
    ELSE IF ch[s.process].state # "running" THEN "WRITE_FAILED"
    ELSE "Ok"

\* The line written to the child's stdin by a successful send_message_sync.
Deliver(ch, s, method, id) ==
    [ch EXCEPT ![s.process].inp = Append(@, [method |-> method, id |-> id])]

\* ----------------------------------------------------------------- threads
Idle ==
    [pc |-> "idle", op |-> "none", id |-> "x", cmd |-> "A", call |-> 0,
     proc |-> <<>>, pid |-> 0, mid |-> 0, expired |-> FALSE, all_output |-> 0,
     emitted |-> <<>>,
     rr |-> "none", val |-> NoLine, res |-> "none"]

NoSnap == [phase |-> "none", id |-> "x", call |-> 0, pk |-> {}, ck |-> {}]

Init ==
    /\ processes = <<>>
    /\ connections = <<>>
    /\ procLock = "none"
    /\ children = <<>>
    /\ events = <<>>
    /\ th = [t \in Threads |-> Idle]
    /\ calls = 0
    /\ disconnected = {}
    /\ snap = NoSnap

\* Map helpers (HashMap insert and remove).
Insert(m, k, v) == [i \in DOMAIN m \cup {k} |-> IF i = k THEN v ELSE m[i]]
Remove_Nothing(m, k) == m
Remove(m, k) == [i \in DOMAIN m \ {k} |-> m[i]]

\* is_server_connected and get_connection_statuses read the connections map.
is_server_connected(id) == id \in DOMAIN connections
get_connection_statuses == {connections[i] : i \in DOMAIN connections}

\* A thread is free when it runs no call.
Free(t) == th[t].pc = "idle"
Quiescent == \A t \in Threads : Free(t)

Event(t, status, reason) ==
    [server_id |-> th[t].id, status |-> status, reason |-> reason,
     command |-> IF status = "connected" THEN th[t].cmd ELSE "none"]

\* emit_connection_event (the app handle is set by the plugin's setup).
emit_connection_event(ev, e) == Append(ev, e)

Done(t, res) == [th EXCEPT ![t].pc = "done", ![t].res = res]

\* A call that emits e and returns res (th.emitted: the events of the call).
DoneEmit(t, res, e) ==
    [th EXCEPT ![t].pc = "done", ![t].res = res, ![t].emitted = Append(@, e)]

\* The session a thread works on: the local `process` of connect_server, or
\* the map entry that list_tools/execute_tool hold through the mutex guard.
CurSession(t) ==
    IF th[t].op = "connect" THEN th[t].proc[1] ELSE processes[th[t].id]

\* ------------------------------------------------------------- call starts
Begin(t, op, id, cmd) ==
    /\ Free(t)
    /\ calls' = calls + 1
    /\ th' = [th EXCEPT ![t] = [Idle EXCEPT !.op = op, !.id = id, !.cmd = cmd,
                                            !.call = calls + 1,
                                            !.pc = CASE op = "connect" -> "cs_silent"
                                                     [] op = "disconnect" -> "ds_lock"
                                                     [] OTHER -> "lt_lock"]]
    /\ UNCHANGED <<processes, connections, procLock, children, events>>

CallConnect(t, id, cmd) ==
    /\ Begin(t, "connect", id, cmd)
    /\ disconnected' = disconnected \ {id}
    /\ snap' = [phase |-> "connecting", id |-> id, call |-> calls + 1,
                pk |-> DOMAIN processes, ck |-> DOMAIN connections]

CallDisconnect(t, id) ==
    /\ Begin(t, "disconnect", id, "A")
    /\ snap' = IF snap.phase = "connected" /\ snap.id = id /\ snap.call = calls
               THEN [snap EXCEPT !.phase = "disconnecting", !.call = calls + 1]
               ELSE NoSnap
    /\ UNCHANGED disconnected

CallListTools(t, id) ==
    /\ Begin(t, "list_tools", id, "A")
    /\ snap' = NoSnap
    /\ UNCHANGED disconnected

CallExecuteTool(t, id) ==
    /\ Begin(t, "execute_tool", id, "A")
    /\ snap' = NoSnap
    /\ UNCHANGED disconnected

\* The call returns to its caller (pc "done" holds what it returned); the
\* thread is free for the next call.
Return(t) ==
    /\ th[t].pc = "done"
    /\ th' = [th EXCEPT ![t] = Idle]
    /\ UNCHANGED <<processes, connections, procLock, children, events, calls,
                   disconnected, snap>>

\* ---------------------------------------------- disconnect_server(_silent)
\* First block of disconnect_server_silent / disconnect_server: lock the
\* processes map and remove the entry.  With an entry the guard stays held
\* while process.stop() runs (the next step); without one it is released.
RemoveProcess(t, stopPc, nextPc) ==
    /\ procLock = "none"
    /\ IF th[t].id \in DOMAIN processes
       THEN /\ processes' = Remove(processes, th[t].id)
            /\ th' = [th EXCEPT ![t].proc = <<processes[th[t].id]>>, ![t].pc = stopPc]
            /\ procLock' = t
       ELSE /\ th' = [th EXCEPT ![t].pc = nextPc]
            /\ UNCHANGED <<processes, procLock>>
    /\ UNCHANGED <<connections, children, events, calls, disconnected, snap>>

\* process.stop() on the removed session.
StopRemoved(t, dropPc) ==
    /\ procLock = t
    /\ children' = KillAndWait(children, th[t].proc[1])
    /\ th' = [th EXCEPT ![t].proc = <<stop(th[t].proc[1])>>, ![t].pc = dropPc]
    /\ UNCHANGED <<processes, connections, procLock, events, calls, disconnected, snap>>

\* The end of the block: the removed session goes out of scope (Drop runs
\* stop() on it once more), then the guard.
DropRemoved(t, nextPc) ==
    /\ procLock = t
    /\ children' = drop(children, th[t].proc[1])
    /\ th' = [th EXCEPT ![t].proc = <<>>, ![t].pc = nextPc]
    /\ procLock' = "none"
    /\ UNCHANGED <<processes, connections, events, calls, disconnected, snap>>

\* Second block: lock the connections map and remove the info.
RemoveConn(t, nextPc) ==
    /\ connections' = Remove(connections, th[t].id)
    /\ th' = [th EXCEPT ![t].pc = nextPc]
    /\ UNCHANGED <<processes, procLock, children, events, calls, disconnected, snap>>

\* Second block with the removal left out.
KeepConn(t, nextPc) ==
    /\ th' = [th EXCEPT ![t].pc = nextPc]
    /\ UNCHANGED <<connections, processes, procLock, children, events, calls,
                   disconnected, snap>>

\* disconnect_server_silent, the steps of connect_server's first line.
SilentLock_KeepSession(t) == th[t].pc = "cs_silent" /\ KeepConn(t, "cs_silent_conn")
SilentLock(t) == th[t].pc = "cs_silent" /\ RemoveProcess(t, "cs_silent_stop", "cs_silent_conn")
SilentStop(t) == th[t].pc = "cs_silent_stop" /\ StopRemoved(t, "cs_silent_drop")
SilentDrop(t) == th[t].pc = "cs_silent_drop" /\ DropRemoved(t, "cs_silent_conn")
SilentRemoveConn_Skip(t) == th[t].pc = "cs_silent_conn" /\ KeepConn(t, "cs_start")
SilentRemoveConn(t) == th[t].pc = "cs_silent_conn" /\ RemoveConn(t, "cs_start")

\* disconnect_server, its steps before the event.
DiscLock_FailUnknown(t) ==
    /\ th[t].pc = "ds_lock"
    /\ IF th[t].id \in DOMAIN processes
       THEN RemoveProcess(t, "ds_stop", "ds_conn")
       ELSE /\ th' = Done(t, "NO_PROCESS")
            /\ UNCHANGED <<processes, connections, procLock, children, events,
                           calls, disconnected, snap>>
DiscLock_NoRemove(t) == th[t].pc = "ds_lock" /\ KeepConn(t, "ds_conn")
DiscLock(t) == th[t].pc = "ds_lock" /\ RemoveProcess(t, "ds_stop", "ds_conn")
DiscStop(t) == th[t].pc = "ds_stop" /\ StopRemoved(t, "ds_drop")
DiscDrop(t) == th[t].pc = "ds_drop" /\ DropRemoved(t, "ds_conn")
DiscRemoveConn_Skip(t) == th[t].pc = "ds_conn" /\ KeepConn(t, "ds_emit")
DiscRemoveConn(t) == th[t].pc = "ds_conn" /\ RemoveConn(t, "ds_emit")

\* disconnect_server emits "disconnected" and returns Ok.
DiscEmit(t) ==
    /\ th[t].pc = "ds_emit"
    /\ events' = emit_connection_event(events,
                    Event(t, "disconnected", "User requested disconnection"))
    /\ th' = DoneEmit(t, "Ok", Event(t, "disconnected", "User requested disconnection"))
    /\ disconnected' = disconnected \cup {th[t].id}
    /\ snap' = IF snap.phase = "disconnecting" /\ snap.call = th[t].call
               THEN [snap EXCEPT !.phase = "restored"] ELSE snap
    /\ UNCHANGED <<processes, connections, procLock, children, calls>>

\* ---------------------------------------------------------- connect_server
\* A spawned child: its command, whether it runs, the unread lines of its
\* stdout pipe, and the messages written to its stdin.
NewChild(t) ==
    [cmd |-> th[t].cmd, state |-> "running", out |-> <<>>, inp |-> <<>>]

\* The local session of a failing connect_server goes out of scope: Drop
\* runs stop() on it.
DropLocal(t) == drop(children, th[t].proc[1])

\* MCPProcess::new and process.start: the spawn fails for a command that is
\* not found (Err is returned at once), else the child runs with its three
\* pipes captured.
ConnectStart(t) ==
    /\ th[t].pc = "cs_start"
    /\ IF th[t].cmd \in BadCommands
       THEN /\ th' = Done(t, "CMD_NOT_FOUND")
            /\ snap' = NoSnap
            /\ UNCHANGED children
       ELSE /\ children' = Append(children, NewChild(t))
            /\ th' = [th EXCEPT ![t].proc = <<Started(NewProcess, Len(children) + 1)>>,
                                ![t].pid = Len(children) + 1,
                                ![t].pc = "init_send"]
            /\ UNCHANGED snap
    /\ UNCHANGED <<processes, connections, procLock, events, calls, disconnected>>

\* send_initialize, first half: next_message_id, track_request, and the
\* write of the initialize request; a failed write is returned by `?`.
InitSend(t) ==
    /\ th[t].pc = "init_send"
    /\ LET s == th[t].proc[1]
           id == s.message_counter
           s2 == [next_message_id(s) EXCEPT !.pending_requests = @ \cup {id}]
           r == SendResult(children, s2)
       IN IF r = "Ok"
          THEN /\ children' = Deliver(children, s2, "initialize", id)
               /\ th' = [th EXCEPT ![t].proc = <<s2>>, ![t].mid = id,
                                   ![t].pc = "rr_loop"]
               /\ UNCHANGED snap
          ELSE /\ children' = DropLocal(t)
               /\ th' = [Done(t, r) EXCEPT ![t].proc = <<>>]
               /\ snap' = NoSnap
    /\ UNCHANGED <<processes, connections, procLock, events, calls, disconnected>>

\* send_initialize that ends after the read, without the notification.
InitNotify_NoWrite(t) ==
    /\ th[t].pc = "init_notify"
    /\ th' = [th EXCEPT ![t].pc = "cs_insert",
                        ![t].val = NoLine, ![t].all_output = 0,
                        ![t].expired = FALSE]
    /\ UNCHANGED <<processes, connections, procLock, children, events, calls,
                   disconnected, snap>>

\* send_initialize, second half: whatever read_response returned, the
\* notifications/initialized notification is written; a failed write is
\* returned by `?`.
InitNotify(t) ==
    /\ th[t].pc = "init_notify"
    /\ LET s == th[t].proc[1]
           r == SendResult(children, s)
       IN IF r = "Ok"
          THEN /\ children' = Deliver(children, s, "notifications/initialized", 0)
               /\ th' = [th EXCEPT ![t].pc = "cs_insert",
                                   ![t].val = NoLine, ![t].all_output = 0,
                                   ![t].expired = FALSE]
               /\ UNCHANGED snap
          ELSE /\ children' = DropLocal(t)
               /\ th' = [Done(t, r) EXCEPT ![t].proc = <<>>]
               /\ snap' = NoSnap
    /\ UNCHANGED <<processes, connections, procLock, events, calls, disconnected>>

\* "Store the process": lock, insert, unlock.  HashMap::insert hands back a
\* session already stored under the id, which is dropped (and so stopped).
ConnectInsertProcess(t) ==
    /\ th[t].pc = "cs_insert"
    /\ procLock = "none"
    /\ processes' = Insert(processes, th[t].id, th[t].proc[1])
    /\ children' = IF th[t].id \in DOMAIN processes
                   THEN drop(children, processes[th[t].id])
                   ELSE children
    /\ th' = [th EXCEPT ![t].proc = <<>>, ![t].pc = "cs_conn"]
    /\ UNCHANGED <<connections, procLock, events, calls, disconnected, snap>>

\* "Store connection info": lock, insert, unlock.
ConnectInsertConn(t) ==
    /\ th[t].pc = "cs_conn"
    /\ connections' = Insert(connections, th[t].id,
                             [server_id |-> th[t].id, command |-> th[t].cmd,
                              status |-> "connected"])
    /\ th' = [th EXCEPT ![t].pc = "cs_emit"]
    /\ UNCHANGED <<processes, procLock, children, events, calls, disconnected, snap>>

\* The "connected" event, and Ok.
ConnectEmit(t) ==
    /\ th[t].pc = "cs_emit"
    /\ events' = emit_connection_event(events, Event(t, "connected", "none"))
    /\ th' = DoneEmit(t, "Ok", Event(t, "connected", "none"))
    /\ snap' = IF snap.phase = "connecting" /\ snap.call = th[t].call
               THEN [snap EXCEPT !.phase = "connected"] ELSE snap
    /\ UNCHANGED <<processes, connections, procLock, children, calls, disconnected>>

\* ------------------------------------------------ list_tools, execute_tool
ExitReason(t) ==
    IF th[t].op = "list_tools" THEN "Process exited during tool listing"
    ELSE "Process exited during tool execution"

\* The mutex guard of list_tools/execute_tool lives until the function
\* returns: every return path releases the lock.
ToolReturn(t, res) == th' = Done(t, res) /\ procLock' = "none"

\* The same without the guard being kept.
ToolLock_NoGuard(t) ==
    /\ th[t].pc = "lt_lock"
    /\ procLock = "none"
    /\ IF th[t].id \notin DOMAIN processes
       THEN /\ th' = Done(t, "NO_PROCESS")
            /\ UNCHANGED <<children, events>>
       ELSE LET s == processes[th[t].id]
            IN IF check_process_status(children, s)
               THEN /\ th' = [th EXCEPT ![t].pc = "lt_send"]
                    /\ UNCHANGED <<children, events>>
               ELSE /\ children' = TryWait(children, s)
                    /\ events' = emit_connection_event(events,
                                    Event(t, "disconnected", ExitReason(t)))
                    /\ th' = DoneEmit(t, "PROCESS_EXITED",
                                      Event(t, "disconnected", ExitReason(t)))
    /\ UNCHANGED <<processes, connections, procLock, calls, disconnected, snap>>

\* The same with a missing session reported like an exited child.
ToolLock_MissingIsExit(t) ==
    /\ th[t].pc = "lt_lock"
    /\ procLock = "none"
    /\ IF th[t].id \in DOMAIN processes /\ check_process_status(children, processes[th[t].id])
       THEN /\ th' = [th EXCEPT ![t].pc = "lt_send"]
            /\ procLock' = t
            /\ UNCHANGED <<children, events>>
       ELSE /\ children' = IF th[t].id \in DOMAIN processes
                           THEN TryWait(children, processes[th[t].id])
                           ELSE children
            /\ events' = emit_connection_event(events,
                             Event(t, "disconnected", ExitReason(t)))
            /\ th' = DoneEmit(t, "PROCESS_EXITED",
                               Event(t, "disconnected", ExitReason(t)))
            /\ UNCHANGED procLock
    /\ UNCHANGED <<processes, connections, calls, disconnected, snap>>

\* The same with the session and the info of an exited child removed.
ToolLock_RemoveOnExit(t) ==
    /\ th[t].pc = "lt_lock"
    /\ procLock = "none"
    /\ IF th[t].id \notin DOMAIN processes
       THEN /\ th' = Done(t, "NO_PROCESS")
            /\ UNCHANGED <<processes, connections, procLock, children, events>>
       ELSE LET s == processes[th[t].id]
            IN IF check_process_status(children, s)
               THEN /\ th' = [th EXCEPT ![t].pc = "lt_send"]
                    /\ procLock' = t
                    /\ UNCHANGED <<processes, connections, children, events>>
               ELSE /\ children' = TryWait(children, s)
                    /\ processes' = Remove(processes, th[t].id)
                    /\ connections' = Remove(connections, th[t].id)
                    /\ events' = emit_connection_event(events,
                                    Event(t, "disconnected", ExitReason(t)))
                    /\ th' = DoneEmit(t, "PROCESS_EXITED",
                                      Event(t, "disconnected", ExitReason(t)))
                    /\ UNCHANGED procLock
    /\ UNCHANGED <<calls, disconnected, snap>>

\* Lock the processes map, look the session up, check_process_status.
ToolLock(t) ==
    /\ th[t].pc = "lt_lock"
    /\ procLock = "none"
    /\ IF th[t].id \notin DOMAIN processes
       THEN /\ th' = Done(t, "NO_PROCESS")
            /\ UNCHANGED <<procLock, children, events>>
       ELSE LET s == processes[th[t].id]
            IN IF check_process_status(children, s)
               THEN /\ th' = [th EXCEPT ![t].pc = "lt_send"]
                    /\ procLock' = t
                    /\ UNCHANGED <<children, events>>
               ELSE /\ children' = TryWait(children, s)
                    /\ events' = emit_connection_event(events,
                                    Event(t, "disconnected", ExitReason(t)))
                    /\ th' = DoneEmit(t, "PROCESS_EXITED",
                                      Event(t, "disconnected", ExitReason(t)))
                    /\ UNCHANGED procLock
    /\ UNCHANGED <<processes, connections, calls, disconnected, snap>>

\* next_message_id and send_message_sync of the tools/list or tools/call
\* request; a failed write is returned.
ToolSend(t) ==
    /\ th[t].pc = "lt_send"
    /\ LET s == processes[th[t].id]
           id == s.message_counter
           s2 == next_message_id(s)
           r == SendResult(children, s2)
       IN /\ processes' = [processes EXCEPT ![th[t].id] = s2]
          /\ IF r = "Ok"
             THEN /\ children' = Deliver(children, s2,
                        IF th[t].op = "list_tools" THEN "tools/list" ELSE "tools/call", id)
                  /\ th' = [th EXCEPT ![t].mid = id, ![t].pc = "rr_loop"]
                  /\ UNCHANGED procLock
             ELSE /\ ToolReturn(t, r)
                  /\ UNCHANGED children
    /\ UNCHANGED <<connections, events, calls, disconnected, snap>>

\* response.get("result") / response.get("error") on a matched response.
HasResult(l) == l.body \in {"result", "both"}
HasError(l) == l.body \in {"error", "both"}

\* The same with the error field looked at first.
ToolResult_ErrorFirst(op, l) ==
    IF HasError(l)
    THEN (IF op = "list_tools" THEN "PROTOCOL_ERROR" ELSE "TOOL_EXECUTION_ERROR")
    ELSE IF HasResult(l) THEN "Ok"
         ELSE "PROTOCOL_ERROR"

\* What list_tools / execute_tool make of a matched response.
ToolResult(op, l) ==
    IF HasResult(l) THEN "Ok"
    ELSE IF HasError(l)
         THEN (IF op = "list_tools" THEN "PROTOCOL_ERROR" ELSE "TOOL_EXECUTION_ERROR")
         ELSE "PROTOCOL_ERROR"

\* ----------------------------------------------------------- read_response
\* read_response has returned `rr` (with the matched line `l` when Ok): in
\* send_initialize the outcome is only logged and the notification follows;
\* list_tools/execute_tool return the error, or the result of the response.
AfterRead_FailOnError(t, rr, l, n) ==
    IF th[t].op = "connect"
    THEN /\ th' = [th EXCEPT ![t].rr = rr, ![t].val = l, ![t].all_output = n,
                             ![t].pc = IF rr = "Ok" THEN "init_notify" ELSE "done",
                             ![t].res = IF rr = "Ok" THEN @ ELSE rr]
         /\ UNCHANGED procLock
    ELSE /\ th' = [th EXCEPT ![t].rr = rr, ![t].val = l, ![t].all_output = n,
                             ![t].pc = "done",
                             ![t].res = IF rr = "Ok" THEN ToolResult(th[t].op, l) ELSE rr]
         /\ procLock' = "none"
AfterRead(t, rr, l, n) ==
    IF th[t].op = "connect"
    THEN /\ th' = [th EXCEPT ![t].rr = rr, ![t].val = l, ![t].all_output = n,
                             ![t].pc = "init_notify"]
         /\ UNCHANGED procLock
    ELSE /\ th' = [th EXCEPT ![t].rr = rr, ![t].val = l, ![t].all_output = n,
                             ![t].pc = "done",
                             ![t].res = IF rr = "Ok" THEN ToolResult(th[t].op, l) ELSE rr]
         /\ procLock' = "none"

\* The loop with a timeout that reports no lines.
ReadLoop_CountZero(t) ==
    /\ th[t].pc = "rr_loop"
    /\ IF ~CurSession(t).stdout
       THEN AfterRead(t, "NO_STDOUT", NoLine, 0)
       ELSE IF th[t].expired
            THEN AfterRead(t, "CONNECTION_TIMEOUT", NoLine, 0)
            ELSE th' = [th EXCEPT ![t].pc = "rr_read"] /\ UNCHANGED procLock
    /\ UNCHANGED <<processes, connections, children, events, calls, disconnected, snap>>

\* The head of the loop: `while start_time.elapsed() < timeout`.
ReadLoop(t) ==
    /\ th[t].pc = "rr_loop"
    /\ IF ~CurSession(t).stdout
       THEN AfterRead(t, "NO_STDOUT", NoLine, 0)
       ELSE IF th[t].expired
            THEN AfterRead(t, "CONNECTION_TIMEOUT", NoLine, th[t].all_output)
            ELSE th' = [th EXCEPT ![t].pc = "rr_read"] /\ UNCHANGED procLock
    /\ UNCHANGED <<processes, connections, children, events, calls, disconnected, snap>>

\* stdout.read_line: blocks until the pipe holds a line or is at end of
\* file (the child has exited and its output has been read).
ReadLine(t) ==
    /\ th[t].pc = "rr_read"
    /\ LET p == CurSession(t).process
           c == children[p]
       IN IF c.out # <<>>
          THEN LET l == Head(c.out)
                   n == IF l.kind = "blank" THEN th[t].all_output
                        ELSE th[t].all_output + 1
               IN /\ children' = [children EXCEPT ![p].out = Tail(@)]
                  /\ IF l.kind = "badutf8"
                     THEN AfterRead(t, "READ_FAILED", NoLine, th[t].all_output)
                     ELSE IF IsMatch(l, th[t].mid)
                          THEN AfterRead(t, "Ok", l, n)
                          ELSE /\ th' = [th EXCEPT ![t].all_output = n,
                                                   ![t].pc = "rr_loop"]
                               /\ UNCHANGED procLock
          ELSE /\ c.state # "running"
               /\ AfterRead(t, "STDOUT_CLOSED", NoLine, th[t].all_output)
               /\ UNCHANGED children
    /\ UNCHANGED <<processes, connections, events, calls, disconnected, snap>>

\* -------------------------------------------------------------- environment
\* The deadline of the read_response a thread is in passes.  The loop runs
\* in microseconds between two reads, and the deadlines are seconds: time
\* passes while read_line blocks on an empty pipe.
Tick(t) ==
    /\ th[t].pc = "rr_read"
    /\ children[CurSession(t).process].out = <<>>
    /\ ~th[t].expired
    /\ th' = [th EXCEPT ![t].expired = TRUE]
    /\ UNCHANGED <<processes, connections, procLock, children, events, calls,
                   disconnected, snap>>

\* The lines a server writes: notifications, and responses (with a result
\* or an error) to the requests it has received.
ChildLines(p) ==
    {Line("json", "absent", 0, "result")}
    \cup {Line("json", "number", children[p].inp[i].id, b) :
            i \in {j \in DOMAIN children[p].inp : children[p].inp[j].method
                                                  # "notifications/initialized"},
            b \in {"result", "error"}}

\* A line written while nobody reads waits in the pipe and is told apart by
\* nothing from a line written once the reader waits, so the child's writes
\* are scheduled while a read_line on its stdout is pending.
ReadPending(t, p) == th[t].pc = "rr_read" /\ CurSession(t).process = p

ChildWrite(p, l) ==
    /\ children[p].state = "running"
    /\ children[p].out = <<>>
    /\ \E t \in Threads : ReadPending(t, p) /\ th[t].all_output < MaxLines
    /\ children' = [children EXCEPT ![p].out = Append(@, l)]
    /\ UNCHANGED <<processes, connections, procLock, events, th, calls,
                   disconnected, snap>>

\* The child exits on its own.
ChildExit(p) ==
    /\ children[p].state = "running"
    /\ children' = [children EXCEPT ![p].state = "exited"]
    /\ UNCHANGED <<processes, connections, procLock, events, th, calls,
                   disconnected, snap>>

\* A child that writes anything at all: any line of AllLines.
ChildWriteAny(p, l) == ChildWrite(p, l)

\* ------------------------------------------------------------ specifications
Step(t) ==
    \/ SilentLock(t) \/ SilentStop(t) \/ SilentDrop(t) \/ SilentRemoveConn(t)
    \/ ConnectStart(t) \/ InitSend(t) \/ InitNotify(t)
    \/ ConnectInsertProcess(t) \/ ConnectInsertConn(t) \/ ConnectEmit(t)
    \/ DiscLock(t) \/ DiscStop(t) \/ DiscDrop(t) \/ DiscRemoveConn(t) \/ DiscEmit(t)
    \/ ToolLock(t) \/ ToolSend(t)
    \/ ReadLoop(t) \/ ReadLine(t)
    \/ Return(t)

ToolCall(t) ==
    \/ \E id \in ServerIds : CallListTools(t, id)
    \/ \E id \in ServerIds : CallExecuteTool(t, id)

Call(t) ==
    \/ \E id \in ServerIds, cmd \in Commands : CallConnect(t, id, cmd)
    \/ \E id \in ServerIds : CallDisconnect(t, id)
    \/ ToolCall(t)

Environment ==
    \/ \E t \in Threads : Tick(t)
    \/ \E p \in DOMAIN children : \E l \in ChildLines(p) : ChildWrite(p, l)
    \/ \E p \in DOMAIN children : ChildExit(p)

\* One caller: up to MaxCalls calls made one after another on a new
\* Registry, with the children writing and exiting as they like.
Next ==
    \/ calls < MaxCalls /\ Call("t1")
    \/ Step("t1")
    \/ Environment

Spec == Init /\ [][Next]_vars

\* The same with the scheduling the runtime gives: a thread that can take a
\* step takes it, and time passes.  The children owe nothing.
FairSpec == Spec /\ WF_vars(Step("t1")) /\ WF_vars(Tick("t1"))

\* The Registry after connect_server("x", "A", []) has returned Ok.
Connected ==
    /\ processes = [i \in {"x"} |->
          [Started(NewProcess, 1) EXCEPT !.message_counter = 1,
                                         !.pending_requests = {0}]]
    /\ connections = [i \in {"x"} |->
          [server_id |-> "x", command |-> "A", status |-> "connected"]]
    /\ procLock = "none"
    /\ children = <<[cmd |-> "A", state |-> "running", out |-> <<>>,
                     inp |-> <<[method |-> "initialize", id |-> 0],
                               [method |-> "notifications/initialized", id |-> 0]>>]>>
    /\ events = <<[server_id |-> "x", status |-> "connected", reason |-> "none",
                   command |-> "A"]>>
    /\ th = [t \in Threads |-> Idle]
    /\ calls = 1
    /\ disconnected = {}
    /\ snap = [phase |-> "connected", id |-> "x", call |-> 1, pk |-> {}, ck |-> {}]

\* Two callers: with "x" connected, each thread of the runtime makes one
\* call, at the same time or one after the other.  Which thread picks a call
\* up makes no difference: the first call goes to t1.
ParNext ==
    \/ calls = 1 /\ Call("t1")
    \/ calls = 2 /\ Call("t2")
    \/ \E t \in Threads : Step(t)
    \/ Environment

ParSpec == Connected /\ [][ParNext]_vars

\* read_response against any child: with "x" connected, tool calls made one
\* after another while the child writes any lines at all.
ReadNext ==
    \/ calls < MaxCalls /\ ToolCall("t1")
    \/ ToolLock("t1") \/ ToolSend("t1") \/ ReadLoop("t1") \/ ReadLine("t1")
    \/ Return("t1")
    \/ Tick("t1")
    \/ \E p \in DOMAIN children : \E l \in AllLines : ChildWriteAny(p, l)
    \/ \E p \in DOMAIN children : ChildExit(p)

ReadSpec == Connected /\ [][ReadNext]_vars

\* A late reply: with "x" connected, list_tools has sent request TimedOutId
\* and returned CONNECTION_TIMEOUT, the child having answered nothing that
\* matched; the tool calls that follow read whatever the child writes now.
TimedOutId == 1
LateInit ==
    /\ processes = [i \in {"x"} |->
          [Started(NewProcess, 1) EXCEPT !.message_counter = TimedOutId + 1,
                                         !.pending_requests = {0}]]
    /\ connections = [i \in {"x"} |->
          [server_id |-> "x", command |-> "A", status |-> "connected"]]
    /\ procLock = "none"
    /\ children = <<[cmd |-> "A", state |-> "running", out |-> <<>>,
                     inp |-> <<[method |-> "initialize", id |-> 0],
                               [method |-> "notifications/initialized", id |-> 0],
                               [method |-> "tools/list", id |-> TimedOutId]>>]>>
    /\ events = <<[server_id |-> "x", status |-> "connected", reason |-> "none",
                   command |-> "A"]>>
    /\ th = [t \in Threads |-> Idle]
    /\ calls = 2
    /\ disconnected = {}
    /\ snap = NoSnap

LateSpec == LateInit /\ [][ReadNext]_vars

\* Two callers of list_tools and execute_tool: with "x" connected, the
\* threads of the runtime make up to MaxCalls tool calls between them, at
\* the same time or one after the other.
ToolStep(t) ==
    \/ ToolLock(t) \/ ToolSend(t) \/ ReadLoop(t) \/ ReadLine(t) \/ Return(t)

ParToolNext ==
    \/ calls < MaxCalls + 1 /\ \E t \in Threads : ToolCall(t)
    \/ \E t \in Threads : ToolStep(t)
    \/ Environment

ParToolSpec == Connected /\ [][ParToolNext]_vars

\* Two callers on distinct ids: with "x" connected, one thread makes its
\* calls on "x" and the other on "y", two calls between them, at the same
\* time or one after the other.
CallOn(t, id) ==
    \/ \E cmd \in Commands : CallConnect(t, id, cmd)
    \/ CallDisconnect(t, id)
    \/ CallListTools(t, id)
    \/ CallExecuteTool(t, id)

ParIdNext ==
    \/ calls \in {1, 2} /\ (CallOn("t1", "x") \/ CallOn("t2", "y"))
    \/ \E t \in Threads : Step(t)
    \/ Environment

ParIdSpec == Connected /\ [][ParIdNext]_vars

\* ------------------------------------------------------- one MCPProcess
\* Poisoned mutexes: a thread of the runtime has panicked while it held the
\* guards th[t].poisoned, and Mutex::lock returns Err to every later caller.
\* With "x" connected, the other thread makes its calls one after another.
Mutexes == {"processes", "connections"}
Panicked(held) == [poisoned |-> held] @@ [Idle EXCEPT !.pc = "panicked"]
Poisoned(m) == \E u \in Threads : th[u].pc = "panicked" /\ m \in th[u].poisoned

\* The mutex a call locks at each of its lock() calls.
LockAt(pc) ==
    CASE pc \in {"cs_silent", "cs_insert", "ds_lock", "lt_lock"} -> "processes"
      [] pc \in {"cs_silent_conn", "cs_conn", "ds_conn"} -> "connections"
      [] OTHER -> "none"
FindsPoisoned(t) == LockAt(th[t].pc) # "none" /\ Poisoned(LockAt(th[t].pc))

\* A call starts; snap keeps the key sets of the two maps at that moment.
PoisonCall(t) ==
    /\ \E id \in ServerIds :
          \/ \E cmd \in Commands : Begin(t, "connect", id, cmd)
          \/ Begin(t, "disconnect", id, "A")
          \/ Begin(t, "list_tools", id, "A")
          \/ Begin(t, "execute_tool", id, "A")
    /\ snap' = [NoSnap EXCEPT !.phase = "called", !.call = calls + 1,
                              !.pk = DOMAIN processes, !.ck = DOMAIN connections]
    /\ UNCHANGED disconnected

\* lock().map_err(system_error)?: the call returns SYSTEM_ERROR from where
\* it stands; a session held in a local is dropped on the way out.
LockFails(t) ==
    /\ FindsPoisoned(t)
    /\ th' = [Done(t, "SYSTEM_ERROR") EXCEPT ![t].proc = <<>>]
    /\ children' = IF th[t].proc # <<>> THEN DropLocal(t) ELSE children
    /\ UNCHANGED <<processes, connections, procLock, events, calls, disconnected, snap>>

PoisonInit ==
    /\ processes = [i \in {"x"} |->
          [Started(NewProcess, 1) EXCEPT !.message_counter = 1,
                                         !.pending_requests = {0}]]
    /\ connections = [i \in {"x"} |->
          [server_id |-> "x", command |-> "A", status |-> "connected"]]
    /\ procLock = "none"
    /\ children = <<[cmd |-> "A", state |-> "running", out |-> <<>>,
                     inp |-> <<[method |-> "initialize", id |-> 0],
                               [method |-> "notifications/initialized", id |-> 0]>>]>>
    /\ events = <<[server_id |-> "x", status |-> "connected", reason |-> "none",
                   command |-> "A"]>>
    /\ \E held \in SUBSET Mutexes :
          th = [t \in Threads |-> IF t = "t2" THEN Panicked(held) ELSE Idle]
    /\ calls = 1
    /\ disconnected = {}
    /\ snap = NoSnap

PoisonNext ==
    \/ calls < MaxCalls /\ PoisonCall("t1")
    \/ LockFails("t1")
    \/ ~FindsPoisoned("t1") /\ Step("t1")
    \/ Environment

PoisonSpec == PoisonInit /\ [][PoisonNext]_vars

\* The public methods of MCPProcess called by the owner of one session, as
\* the unit tests do: start, stop, next_message_id and send_message_sync,
\* one call after another (the methods take &self or &mut self).  The
\* session is the owner's local th[t].proc; th[t].op and th[t].res hold the
\* last call and what it returned, th[t].mid the last id issued.
ApiDone(t, op, res, s) ==
    /\ th' = [th EXCEPT ![t].op = op, ![t].res = res, ![t].proc = <<s>>]
    /\ calls' = calls + 1
    /\ UNCHANGED <<processes, connections, procLock, events, disconnected, snap>>

\* start: a failed spawn returns before the session is touched; after a
\* spawn the session holds the new child, its pipes and its stderr receiver
\* (a child it held before is neither killed nor waited for).
ApiStart(t, cmd) ==
    LET s == th[t].proc[1]
    IN IF cmd \in BadCommands
       THEN ApiDone(t, "start", "CMD_NOT_FOUND", s) /\ UNCHANGED children
       ELSE /\ children' = Append(children, [cmd |-> cmd, state |-> "running",
                                              out |-> <<>>, inp |-> <<>>])
            /\ ApiDone(t, "start", "Ok", Started(s, Len(children) + 1))

ApiStop(t) ==
    LET s == th[t].proc[1]
    IN /\ children' = KillAndWait(children, s)
       /\ ApiDone(t, "stop", "Ok", stop(s))

ApiNextId(t) ==
    LET s == th[t].proc[1]
    IN /\ th' = [th EXCEPT ![t].op = "next_message_id", ![t].res = "Ok",
                           ![t].mid = s.message_counter,
                           ![t].proc = <<next_message_id(s)>>]
       /\ calls' = calls + 1
       /\ UNCHANGED <<processes, connections, procLock, children, events,
                      disconnected, snap>>

\* send_message_sync of a request that carries the last id issued.
ApiSend(t) ==
    LET s == th[t].proc[1]
        r == SendResult(children, s)
    IN /\ children' = IF r = "Ok" THEN Deliver(children, s, "tools/list", th[t].mid)
                      ELSE children
       /\ ApiDone(t, "send_message_sync", r, s)

\* A session as MCPProcess::new makes it, or one that has issued ids before:
\* none, or all but two of the 2^32 there are.
StartCounters == {0, -2}
SessionInit ==
    /\ processes = <<>>
    /\ connections = <<>>
    /\ procLock = "none"
    /\ children = <<>>
    /\ events = <<>>
    /\ \E c \in StartCounters :
          th = [t \in Threads |->
                  IF t = "t1" THEN [Idle EXCEPT !.proc = <<[NewProcess EXCEPT
                                                            !.message_counter = c]>>]
                  ELSE Idle]
    /\ calls = 0
    /\ disconnected = {}
    /\ snap = NoSnap

SessionNext ==
    \/ /\ calls < MaxCalls + 1
       /\ \/ \E cmd \in Commands : ApiStart("t1", cmd)
          \/ ApiStop("t1")
          \/ ApiNextId("t1")
          \/ ApiSend("t1")
    \/ \E p \in DOMAIN children : ChildExit(p)

SessionSpec == SessionInit /\ [][SessionNext]_vars

\* The same owner calling read_response and check_process_status as well.
\* The children of these runs write nothing to stdout: read_response
\* returns NO_STDOUT without a pipe and STDOUT_CLOSED at end of file, and
\* with a running child its read_line blocks (no step).
ApiRead(t) ==
    LET s == th[t].proc[1]
    IN /\ s.stdout => (s.process # 0 /\ children[s.process].state # "running")
       /\ ApiDone(t, "read_response", IF s.stdout THEN "STDOUT_CLOSED" ELSE "NO_STDOUT", s)
       /\ UNCHANGED children

\* check_process_status: try_wait reaps a child that has exited.
ApiCheck(t) ==
    LET s == th[t].proc[1]
    IN /\ children' = TryWait(children, s)
       /\ ApiDone(t, "check_process_status",
                  IF check_process_status(children, s) THEN "true" ELSE "false", s)

SessionIoNext ==
    \/ SessionNext
    \/ calls < MaxCalls + 1 /\ (ApiRead("t1") \/ ApiCheck("t1"))

SessionIoSpec == SessionInit /\ [][SessionIoNext]_vars

\* ------------------------------------------------- the global process map
\* get_all_server_connection_statuses over MCP_PROCESSES: here `processes`
\* is the global map and procLock its mutex ("poisoned" once a thread has
\* panicked with the guard).  th[t].server_ids are the keys still to visit,
\* th[t].statuses the result so far, th[t].id the key in hand.
StatusIdle == [server_ids |-> {}, statuses |-> <<>>] @@ Idle

\* The map after start_mcp_process has returned Ok for the ids in `ids`.
Registered(ids) ==
    [i \in ids |->
        [Started(NewProcess, IF i = "x" THEN 1 ELSE 2)
            EXCEPT !.message_counter = 1, !.pending_requests = {0}]]

StatusInit ==
    /\ \E ids \in {{"x"}, {"x", "y"}} :
          /\ processes = Registered(ids)
          /\ children = [p \in 1..Cardinality(ids) |->
                [cmd |-> "A", state |-> "running", out |-> <<>>,
                 inp |-> <<[method |-> "initialize", id |-> 0],
                           [method |-> "notifications/initialized", id |-> 0]>>]]
    /\ connections = <<>>
    /\ procLock = "none"
    /\ events = <<>>
    /\ th = [t \in Threads |-> StatusIdle]
    /\ calls = 0
    /\ disconnected = {}
    /\ snap = NoSnap

StatusCall(t) ==
    /\ Free(t)
    /\ calls < MaxCalls
    /\ calls' = calls + 1
    /\ th' = [th EXCEPT ![t] = [StatusIdle EXCEPT
                                   !.op = "get_all_server_connection_statuses",
                                   !.call = calls + 1, !.pc = "gs_lock"]]
    /\ UNCHANGED <<processes, connections, procLock, children, events,
                   disconnected, snap>>

\* MCP_PROCESSES.lock().unwrap() and the clone of the keys; unwrap panics
\* on a poisoned mutex.
StatusLock(t) ==
    /\ th[t].pc = "gs_lock"
    /\ \/ /\ procLock = "none"
          /\ procLock' = t
          /\ th' = [th EXCEPT ![t].pc = "gs_loop", ![t].server_ids = DOMAIN processes]
       \/ /\ procLock = "poisoned"
          /\ th' = [th EXCEPT ![t].pc = "panicked"]
          /\ UNCHANGED procLock
    /\ UNCHANGED <<processes, connections, children, events, calls,
                   disconnected, snap>>

\* One round of the for loop, up to the branch on is_running: try_wait on
\* the child of the next key (the keys come in the map's order, which is
\* any order).
StatusVisit(t) ==
    /\ th[t].pc = "gs_loop"
    /\ \E id \in th[t].server_ids :
          LET s == processes[id]
          IN /\ children' = TryWait(children, s)
             /\ IF check_process_status(children, s)
                THEN th' = [th EXCEPT ![t].server_ids = @ \ {id},
                                      ![t].statuses = Insert(@, id, TRUE)]
                ELSE th' = [th EXCEPT ![t].server_ids = @ \ {id}, ![t].id = id,
                                      ![t].pc = "gs_relock"]
    /\ UNCHANGED <<processes, connections, procLock, events, calls,
                   disconnected, snap>>

\* The else branch: MCP_PROCESSES.lock() once more, with the guard
\* `processes` of this same call still alive.  Mutex::lock on a mutex the
\* thread holds does not return: it blocks for ever (no step) or panics,
\* and the unwinding drops the guard, which poisons the mutex.  With the
\* mutex free the entry would be removed and stopped and false reported.
StatusRelock(t) ==
    /\ th[t].pc = "gs_relock"
    /\ \/ /\ procLock = "none"
          /\ processes' = Remove(processes, th[t].id)
          /\ children' = KillAndWait(children, processes[th[t].id])
          /\ th' = [th EXCEPT ![t].statuses = Insert(@, th[t].id, FALSE),
                              ![t].pc = "gs_loop"]
          /\ procLock' = t
       \/ /\ procLock = t
          /\ th' = [th EXCEPT ![t].pc = "panicked"]
          /\ procLock' = "poisoned"
          /\ UNCHANGED <<processes, children>>
    /\ UNCHANGED <<connections, events, calls, disconnected, snap>>

\* The loop is over: the statuses are returned and the guard is dropped.
StatusReturn(t) ==
    /\ th[t].pc = "gs_loop"
    /\ th[t].server_ids = {}
    /\ th' = [th EXCEPT ![t].pc = "done", ![t].res = "Ok"]
    /\ procLock' = "none"
    /\ UNCHANGED <<processes, connections, children, events, calls,
                   disconnected, snap>>

StatusStep(t) ==
    \/ StatusLock(t) \/ StatusVisit(t) \/ StatusRelock(t) \/ StatusReturn(t)

\* The caller takes the result; the thread is free again.
StatusTaken(t) ==
    /\ th[t].pc = "done"
    /\ th' = [th EXCEPT ![t] = StatusIdle]
    /\ UNCHANGED <<processes, connections, procLock, children, events, calls,
                   disconnected, snap>>

StatusNext ==
    \/ \E t \in Threads : StatusCall(t)
    \/ \E t \in Threads : StatusStep(t)
    \/ \E t \in Threads : StatusTaken(t)
    \/ \E p \in DOMAIN children : ChildExit(p)

StatusSpec == StatusInit /\ [][StatusNext]_vars

\* --------------------------------------------------------- the stderr drain
\* One started session, its child's stderr pipe, the reader thread that
\* start() spawns and the owner calling collect_stderr.  A string is the
\* sequence of its pieces; the piece "STDERR_COMPLETE:" is that prefix and
\* "\n" the separator of join.  A stderr line is text, text that happens to
\* begin with the prefix, or bytes that are not UTF-8.
MaxErrLines == 2
Prefix == "STDERR_COMPLETE:"
BadLine == <<"not utf-8">>
ErrLines == {<<"a">>, <<"b">>, <<Prefix, "a">>, BadLine}

\* Vec<String>::join("\n").
RECURSIVE join(_)
join(lines) ==
    IF Len(lines) = 0 THEN <<>>
    ELSE IF Len(lines) = 1 THEN lines[1]
    ELSE lines[1] \o <<"\n">> \o join(Tail(lines))

starts_with(str) == Len(str) > 0 /\ str[1] = Prefix
strip_prefix(str) == Tail(str)

\* A message of the channel: its text, and (history) whether it is the
\* message the reader thread sends after its loop.
Message(str, final) == [text |-> str, final |-> final]
\* A final message that carries the last line only.
FinalMessage_LastLine(stderr_lines) ==
    Message(<<Prefix>> \o stderr_lines[Len(stderr_lines)], TRUE)
\* format!("STDERR_COMPLETE:{}", stderr_lines.join("\n")).
FinalMessage(stderr_lines) == Message(<<Prefix>> \o join(stderr_lines), TRUE)

\* The reader thread (th["t2"]) and the caller of collect_stderr (th["t1"]).
DrainThread ==
    [stderr_lines |-> <<>>, eof |-> FALSE] @@ [Idle EXCEPT !.pc = "dr_read", !.op = "drain"]
Collector ==
    [lines |-> <<>>, result |-> <<>>, some |-> FALSE, took_final |-> FALSE] @@ Idle

\* After start(): the child runs, its stderr pipe (err) is empty, the
\* channel between the reader thread and stderr_receiver is empty.  wrote
\* is the history of the lines the child has written to stderr.
DrainInit ==
    /\ processes = [i \in {"x"} |-> [channel |-> <<>>] @@ Started(NewProcess, 1)]
    /\ connections = <<>>
    /\ procLock = "none"
    /\ children = <<[err |-> <<>>, wrote |-> <<>>] @@
                    [cmd |-> "A", state |-> "running", out |-> <<>>, inp |-> <<>>]>>
    /\ events = <<>>
    /\ th = [t \in Threads |-> IF t = "t2" THEN DrainThread ELSE Collector]
    /\ calls = 0
    /\ disconnected = {}
    /\ snap = NoSnap

\* The child writes a line to its stderr.
ChildErrWrite(l) ==
    /\ children[1].state = "running"
    /\ Len(children[1].wrote) < MaxErrLines
    /\ children' = [children EXCEPT ![1].err = Append(@, l), ![1].wrote = Append(@, l)]
    /\ UNCHANGED <<processes, connections, procLock, events, th, calls,
                   disconnected, snap>>

\* One round of `for line in reader.lines()`: a line is pushed and sent, a
\* read error breaks the loop, end of file ends it; on an empty pipe of a
\* running child the read blocks.
DrainRead(d) ==
    /\ th[d].pc = "dr_read"
    /\ IF children[1].err # <<>>
       THEN LET l == Head(children[1].err)
            IN /\ children' = [children EXCEPT ![1].err = Tail(@)]
               /\ IF l = BadLine
                  THEN /\ th' = [th EXCEPT ![d].pc = "dr_final"]
                       /\ UNCHANGED processes
                  ELSE /\ th' = [th EXCEPT ![d].stderr_lines = Append(@, l)]
                       /\ processes' = [processes EXCEPT
                             !["x"].channel = Append(@, Message(l, FALSE))]
       ELSE /\ children[1].state # "running"
            /\ th' = [th EXCEPT ![d].pc = "dr_final", ![d].eof = TRUE]
            /\ UNCHANGED <<processes, children>>
    /\ UNCHANGED <<connections, procLock, events, calls, disconnected, snap>>

\* After the loop: the final message, if any line was read; the thread
\* ends and the sender is dropped.
DrainFinal(d) ==
    /\ th[d].pc = "dr_final"
    /\ processes' = IF th[d].stderr_lines # <<>>
                    THEN [processes EXCEPT
                            !["x"].channel = Append(@, FinalMessage(th[d].stderr_lines))]
                    ELSE processes
    /\ th' = [th EXCEPT ![d].pc = "exited"]
    /\ UNCHANGED <<connections, procLock, children, events, calls, disconnected, snap>>

Drain(d) == DrainRead(d) \/ DrainFinal(d)

\* collect_stderr is called.
CollectCall(t) ==
    /\ Free(t)
    /\ calls < MaxCalls
    /\ calls' = calls + 1
    /\ th' = [th EXCEPT ![t] = [Collector EXCEPT !.op = "collect_stderr",
                                                 !.call = calls + 1, !.pc = "co_loop"]]
    /\ UNCHANGED <<processes, connections, procLock, children, events,
                   disconnected, snap>>

\* The end of collect_stderr without a final message: Some(join) of the
\* lines taken, None if there are none.
CollectEnd(t) ==
    th' = [th EXCEPT ![t].pc = "done", ![t].some = th[t].lines # <<>>,
                     ![t].result = join(th[t].lines)]

\* try_recv returns Ok(line): a message that starts with the prefix ends
\* the call with the rest of it, any other is pushed.
CollectRecv(t) ==
    /\ th[t].pc = "co_loop"
    /\ processes["x"].channel # <<>>
    /\ LET m == Head(processes["x"].channel)
       IN /\ processes' = [processes EXCEPT !["x"].channel = Tail(@)]
          /\ IF starts_with(m.text)
             THEN th' = [th EXCEPT ![t].pc = "done", ![t].some = TRUE,
                                   ![t].result = strip_prefix(m.text),
                                   ![t].took_final = m.final]
             ELSE th' = [th EXCEPT ![t].lines = Append(@, m.text)]
    /\ UNCHANGED <<connections, procLock, children, events, calls, disconnected, snap>>

\* try_recv returns Disconnected (the channel is empty and the sender is
\* gone): break.
CollectDisconnected(t) ==
    /\ th[t].pc = "co_loop"
    /\ processes["x"].channel = <<>>
    /\ \E d \in Threads : th[d].pc = "exited"
    /\ CollectEnd(t)
    /\ UNCHANGED <<processes, connections, procLock, children, events, calls,
                   disconnected, snap>>

\* `while start_time.elapsed() < timeout` becomes false.
CollectTimeout(t) ==
    /\ th[t].pc = "co_loop"
    /\ CollectEnd(t)
    /\ UNCHANGED <<processes, connections, procLock, children, events, calls,
                   disconnected, snap>>

\* The caller has the result; it may call again.
CollectTaken(t) ==
    /\ th[t].pc = "done"
    /\ th' = [th EXCEPT ![t] = Collector]
    /\ UNCHANGED <<processes, connections, procLock, children, events, calls,
                   disconnected, snap>>

DrainNext ==
    \/ \E l \in ErrLines : ChildErrWrite(l)
    \/ ChildExit(1)
    \/ Drain("t2")
    \/ CollectCall("t1")
    \/ CollectRecv("t1") \/ CollectDisconnected("t1") \/ CollectTimeout("t1")
    \/ CollectTaken("t1")

DrainSpec == DrainInit /\ [][DrainNext]_vars

\* The reader thread is scheduled: when it can take a step, it takes it.
DrainFairSpec == DrainSpec /\ WF_vars(Drain("t2"))

\* ------------------------------------------------------------------ claims
\* A live session: its child runs and its pipes are captured.
Live(s) ==
    /\ s.process # 0
    /\ children[s.process].state = "running"
    /\ s.stdin /\ s.stdout

DoneWith(t, op) == th[t].pc = "done" /\ th[t].op = op

\* C1: between calls, the connection-info map holds a ConnectionInfo with
\* status connected for an id if and only if the session map holds a live
\* session (child running, pipes captured) under that id.
C1_ConnectedIffLive ==
    Quiescent =>
        \A id \in ServerIds :
            (id \in DOMAIN connections /\ connections[id].status = "connected")
            <=> (id \in DOMAIN processes /\ Live(processes[id]))

\* C2: every list_tools or execute_tool that has written its request
\* eventually returns (the response, CONNECTION_TIMEOUT at the deadline, or
\* STDOUT_CLOSED/READ_FAILED): no request waits forever, not even on a child
\* that stays alive and writes nothing.
AwaitsReply(t) ==
    /\ th[t].op \in {"list_tools", "execute_tool"}
    /\ th[t].pc \in {"rr_loop", "rr_read"}
C2_RequestCompletes ==
    \A t \in Threads : AwaitsReply(t) ~> (th[t].pc = "done")

\* C3: in the step in which read_response returns Ok(v), v is the line it has
\* just read from the stdout of the session's child, and v is JSON whose id
\* field is the number expected_id; no line without an id, with another id,
\* empty or not JSON is returned, whatever lines came before.
C3_ReturnsOnlyExpectedId ==
    [][\A t \in Threads :
          (th[t].rr # "Ok" /\ th'[t].rr = "Ok") =>
              LET out == children[CurSession(t).process].out
              IN /\ out # <<>>
                 /\ th'[t].val = Head(out)
                 /\ th'[t].val.kind = "json"
                 /\ th'[t].val.idtag = "number"
                 /\ th'[t].val.idnum = th[t].mid]_vars

\* C3 witness: a response returned after another line was read and dropped.
C3_Witness ==
    \E t \in Threads : th[t].rr = "Ok" /\ th[t].val.idnum = th[t].mid
                       /\ th[t].all_output >= 2

\* C4: when connect returns an error, neither map contains the id, the child
\* this call spawned (if any) is not running, and the call has emitted no
\* connected event.
C4_FailedConnectLeavesNothing ==
    \A t \in Threads :
        (DoneWith(t, "connect") /\ th[t].res # "Ok") =>
            /\ th[t].id \notin DOMAIN processes
            /\ th[t].id \notin DOMAIN connections
            /\ (th[t].pid # 0 => children[th[t].pid].state # "running")
            /\ \A i \in DOMAIN th[t].emitted : th[t].emitted[i].status # "connected"

\* C4 witness: a connect that fails during initialize, after an earlier
\* connect had spawned a child.
C4_Witness ==
    \E t \in Threads : /\ DoneWith(t, "connect")
                       /\ th[t].res = "WRITE_FAILED"
                       /\ th[t].pid > 1

\* C5: after disconnect(x) has returned Ok, and until connect(x) is called,
\* get_connection_statuses has no entry for x and is_server_connected(x) is
\* false.
C5_DisconnectedStaysOut ==
    \A x \in disconnected :
        /\ ~is_server_connected(x)
        /\ \A c \in get_connection_statuses : c.server_id # x

\* C5 witness: some time after the disconnect of an id that was connected.
C5_Witness ==
    /\ Quiescent
    /\ \E x \in disconnected :
         \E i \in DOMAIN events :
            events[i].server_id = x /\ events[i].status = "connected"

\* A child that no session of the map holds.
Orphan(p) == \A i \in DOMAIN processes : processes[i].process # p

\* A connect of thread t that has succeeded on an id that was registered
\* when it was called.
Superseded(t) ==
    /\ DoneWith(t, "connect") /\ th[t].res = "Ok"
    /\ snap.call = th[t].call
    /\ th[t].id \in snap.pk

\* C6: when connect(id, B) succeeds on an id that connect(id, A) had
\* registered, the Registry holds one session and one ConnectionInfo for id,
\* both of B; A's child is killed and reaped; and the call has emitted B's
\* connected event and nothing else.
C6_SecondConnectSupersedes ==
    \A t \in Threads :
        Superseded(t) =>
            /\ th[t].id \in DOMAIN processes
            /\ processes[th[t].id].process = th[t].pid
            /\ children[th[t].pid].cmd = th[t].cmd
            /\ th[t].id \in DOMAIN connections
            /\ connections[th[t].id].command = th[t].cmd
            /\ \A p \in DOMAIN children : Orphan(p) => children[p].state = "reaped"
            /\ th[t].emitted = <<Event(t, "connected", "none")>>

\* C6 witness: connect("x", "A") then connect("x", "B"), both Ok.
C6_Witness ==
    \E t \in Threads :
        /\ Superseded(t)
        /\ th[t].cmd = "B" /\ th[t].pid = 2
        /\ children[1].cmd = "A" /\ children[1].state = "reaped"

\* C7 as stated: a successful connect(id) followed by disconnect(id) leaves
\* both maps with exactly the key sets they had before the connect call.
C7_RestoresKeySets ==
    snap.phase = "restored" =>
        /\ DOMAIN processes = snap.pk
        /\ DOMAIN connections = snap.ck

\* C7 amended: a successful connect(id) followed by disconnect(id) leaves
\* both maps without id and otherwise with the keys they had before the
\* connect call.
C7_RestoresOtherKeys ==
    snap.phase = "restored" =>
        /\ DOMAIN processes = snap.pk \ {snap.id}
        /\ DOMAIN connections = snap.ck \ {snap.id}

\* C7 witness: connect then disconnect of an id while another id is
\* registered.
C7_Witness ==
    /\ snap.phase = "restored"
    /\ snap.id \notin snap.pk
    /\ snap.pk # {} /\ snap.ck # {}

\* C8: when the child exits after list_tools has written its request and
\* before a reply is read, the read fails with STDOUT_CLOSED, the call emits
\* a disconnected event with reason "Process exited during tool listing",
\* and is_server_connected is false afterwards.
C8_ExitDuringListDisconnects ==
    \A t \in Threads :
        (DoneWith(t, "list_tools") /\ th[t].rr = "STDOUT_CLOSED") =>
            /\ th[t].res = "STDOUT_CLOSED"
            /\ th[t].emitted =
                  <<Event(t, "disconnected", "Process exited during tool listing")>>
            /\ ~is_server_connected(th[t].id)

\* C9: no thread is inside a stdin write, a blocking stdout read or a child
\* reap while it holds the lock of the session map.
BlockingPcs == {"lt_send", "rr_read", "cs_silent_stop", "ds_stop"}
C9_NoLockWhileBlocking ==
    \A t \in Threads : th[t].pc \in BlockingPcs => procLock # t

\* C10: a list_tools or execute_tool that waits for its reply on one id
\* never keeps a call on another id from taking its next step.
LockPcs == {"cs_silent", "cs_insert", "ds_lock", "lt_lock"}
WaitsForLock(u) == th[u].pc \in LockPcs /\ procLock \notin {"none", u}
WaitsForReply(t) == th[t].op \in {"list_tools", "execute_tool"} /\ th[t].pc = "rr_read"
C10_OtherIdsProgress ==
    \A t, u \in Threads :
        (WaitsForReply(t) /\ th[u].id # th[t].id) => ~WaitsForLock(u)

\* Every call has returned.
AllReturned == \A t \in Threads : th[t].pc \in {"idle", "done"}

\* What calls run one after another leave behind, in any order: each
\* registered id has its session and its info, both of the same command.
SerialOutcome ==
    /\ DOMAIN processes = DOMAIN connections
    /\ \A id \in DOMAIN processes :
          /\ processes[id].process # 0
          /\ id \in DOMAIN connections
             => connections[id].command = children[processes[id].process].cmd

\* C11: calls on one id are serialized: once concurrent connect,
\* disconnect, list_tools and execute_tool calls have returned, the two maps
\* and the children are as some one-after-another run of the calls leaves
\* them, so each registered id has a session and an info of one command.
C11_SameIdSerialized == AllReturned => SerialOutcome

\* With one caller the outcome is always of that kind.
SerialRunsOutcome == Quiescent => SerialOutcome

\* Both threads have returned Ok from a connect or a disconnect of id.
BothReturnedOk(id) ==
    \A t \in Threads :
        /\ th[t].pc = "done" /\ th[t].res = "Ok"
        /\ th[t].op \in {"connect", "disconnect"}
        /\ th[t].id = id

\* C12: the events of an id are emitted in the order in which the
\* insertions and removals were applied to the maps, so after concurrent
\* connect and disconnect calls on an id have returned Ok, the last event
\* emitted says "connected" exactly when the id is registered.
C12_LastEventAgrees ==
    \A id \in ServerIds :
        BothReturnedOk(id) =>
            /\ events[Len(events)].server_id = id
            /\ (events[Len(events)].status = "connected")
                  <=> (id \in DOMAIN connections /\ id \in DOMAIN processes)

\* The places of the events of an id with a status.
EventsOf(id, status) ==
    {i \in DOMAIN events : events[i].server_id = id /\ events[i].status = status}

\* C13: each event announces one transition of its id and each transition
\* is announced once: a disconnected event is emitted only for a session
\* that was registered (and so announced by a connected event), and once for
\* that session, so an id never has more disconnected than connected events.
C13_DisconnectedOncePerSession ==
    \A id \in ServerIds :
        Cardinality(EventsOf(id, "disconnected")) <= Cardinality(EventsOf(id, "connected"))

\* C14: the ids one session issues through next_message_id go up by one from
\* 0 in call order, so they are strictly increasing and none is issued
\* twice: each call returns the counter, and a smaller id than the next call.
C14_IdsIncrease ==
    [][\A t \in Threads :
          (th'[t].op = "next_message_id" /\ calls' # calls) =>
              /\ th'[t].mid = th[t].proc[1].message_counter
              /\ U32Less(th'[t].mid, th'[t].proc[1].message_counter)]_vars

\* C15: between operations the pending_requests table of a registered
\* session holds exactly the ids written and neither matched by a reply nor
\* timed out.  With one caller every request of a returned call has been
\* matched, has timed out or has failed, so between calls the table of a
\* session whose child runs is empty.
C15_PendingEmptyBetweenCalls ==
    Quiescent =>
        \A id \in DOMAIN processes :
            Live(processes[id]) => processes[id].pending_requests = {}

\* The children that run.
Running == {p \in DOMAIN children : children[p].state = "running"}

UserDisconnect(e, id) ==
    /\ e.server_id = id
    /\ e.status = "disconnected"
    /\ e.reason = "User requested disconnection"

\* C16: disconnect(id) returns Ok whether or not id is registered, and no
\* step of a disconnect(id) made after a disconnect(id) has returned (with
\* no connect(id) in between) changes the session map, the connection-info
\* map or the set of running children.
C16_DisconnectIdempotent ==
    [][\A t \in Threads :
          /\ (th'[t].pc = "done" /\ th'[t].op = "disconnect") => th'[t].res = "Ok"
          /\ (/\ th[t].op = "disconnect"
              /\ th[t].id \in disconnected
              /\ th'[t].pc # th[t].pc)
             => /\ processes' = processes
                /\ connections' = connections
                /\ Running' = Running]_vars

\* C16 witness: connect(id), disconnect(id) and disconnect(id) again have
\* returned Ok.
C16_Witness ==
    \E t \in Threads :
        /\ DoneWith(t, "disconnect") /\ th[t].res = "Ok"
        /\ Len(events) >= 3
        /\ UserDisconnect(events[Len(events)], th[t].id)
        /\ UserDisconnect(events[Len(events) - 1], th[t].id)
        /\ EventsOf(th[t].id, "connected") # {}

\* The places where a removed session that stop() has run on goes out of
\* scope, and Drop runs stop() on it a second time.
DropPcs == {"cs_silent_drop", "ds_drop"}

\* C17: a second stop() on a session neither kills nor reaps anything,
\* leaves every field of the session as the first stop left it, and emits
\* no event.
C17_SecondStopNoEffect ==
    [][\A t \in Threads :
          (th[t].pc \in DropPcs /\ th'[t].pc # th[t].pc) =>
              /\ KillAndWait(children, th[t].proc[1]) = children
              /\ children' = children
              /\ stop(th[t].proc[1]) = th[t].proc[1]
              /\ events' = events]_vars

\* C17 witness: disconnect has stopped the session of a registered id and
\* dropped it, which stops it again.
C17_Witness ==
    \E t \in Threads :
        /\ th[t].op = "disconnect" /\ th[t].pc = "ds_conn"
        /\ th[t].id \in DOMAIN connections
        /\ th[t].id \notin DOMAIN processes
        /\ \E p \in DOMAIN children : children[p].state = "reaped"

\* What a session holds of its child handle, its two pipes and its stderr
\* receiver.
HoldsAll(s) == s.process # 0 /\ s.stdin /\ s.stdout /\ s.stderr_receiver
HoldsNone(s) == s.process = 0 /\ ~s.stdin /\ ~s.stdout /\ ~s.stderr_receiver

\* C18: once stop() has run on a session it stays terminated: the call
\* made on it next, whichever it is, leaves it without child and pipes and
\* writes no message to any child.
C18_StoppedStaysTerminated ==
    [][\A t \in Threads :
          th[t].op = "stop" =>
              /\ th'[t].proc[1].process = 0
              /\ ~th'[t].proc[1].stdin /\ ~th'[t].proc[1].stdout
              /\ \A p \in DOMAIN children : children'[p].inp = children[p].inp]_vars

\* C19: between the calls made on it, a session holds all of its child
\* handle, stdin, stdout reader and stderr receiver, or none of them.
C19_AllOrNone ==
    \A t \in Threads :
        th[t].proc # <<>> => HoldsAll(th[t].proc[1]) \/ HoldsNone(th[t].proc[1])

\* The two messages of the handshake, as the child receives them.
Handshake ==
    <<[method |-> "initialize", id |-> 0],
      [method |-> "notifications/initialized", id |-> 0]>>
WriteErrors == {"NO_STDIN", "WRITE_FAILED"}

\* C20: send_initialize returns Ok exactly when the write of the initialize
\* request and the write of the notifications/initialized notification both
\* succeed: whatever read_response returns, the notification is written
\* next; a failed write of either message ends connect with that error, and
\* connect returns no error of the read.
C20_HandshakeFailsOnlyOnWrite ==
    [][\A t \in Threads :
          (th[t].op = "connect" /\ th'[t].pc # th[t].pc) =>
              /\ (th[t].pc \in {"rr_loop", "rr_read"} /\ th'[t].pc \notin {"rr_loop", "rr_read"})
                    => th'[t].pc = "init_notify"
              /\ th[t].pc \in {"init_send", "init_notify"} =>
                    LET r == SendResult(children, th[t].proc[1])
                    IN IF r = "Ok"
                       THEN th'[t].pc = (IF th[t].pc = "init_send" THEN "rr_loop"
                                         ELSE "cs_insert")
                       ELSE th'[t].pc = "done" /\ th'[t].res = r
              /\ (th'[t].pc = "done" /\ th'[t].res = "Ok")
                    => children'[th[t].pid].inp = Handshake
              /\ (th'[t].pc = "done" /\ th'[t].res # "Ok" /\ th[t].pid # 0)
                    => th'[t].res \in WriteErrors]_vars

\* C20 witness: connect has returned Ok although the read of the
\* initialize reply timed out, and the child has received both messages.
C20_Witness ==
    \E t \in Threads :
        /\ DoneWith(t, "connect") /\ th[t].res = "Ok"
        /\ th[t].rr = "CONNECTION_TIMEOUT"
        /\ children[th[t].pid].inp = Handshake

IsToolOp(t) == th[t].op \in {"list_tools", "execute_tool"}

\* A list_tools or execute_tool that is about to look up a registered
\* session whose child has exited.
FindsExited(t) ==
    /\ IsToolOp(t) /\ th[t].pc = "lt_lock"
    /\ th[t].id \in DOMAIN processes
    /\ children[processes[th[t].id].process].state # "running"

\* C21: a list_tools or execute_tool that finds the child of the registered
\* session exited writes nothing to a child, consumes no message id, emits
\* one disconnected event with the reason of its operation and returns
\* PROCESS_EXITED.
C21_ExitedChildIsReported ==
    [][\A t \in Threads :
          (FindsExited(t) /\ th'[t].pc # th[t].pc) =>
              /\ th'[t].pc = "done" /\ th'[t].res = "PROCESS_EXITED"
              /\ processes' = processes
              /\ \A p \in DOMAIN children :
                    children'[p] = children[p] \/ children'[p].state = "reaped"
              /\ th'[t].emitted = <<Event(t, "disconnected",
                     IF th[t].op = "list_tools"
                     THEN "Process exited during tool listing"
                     ELSE "Process exited during tool execution")>>
              /\ events' = Append(events, th'[t].emitted[1])]_vars

\* C21 witness: execute_tool has returned PROCESS_EXITED for a session whose
\* child had exited.
C21_Witness ==
    \E t \in Threads :
        /\ DoneWith(t, "execute_tool") /\ th[t].res = "PROCESS_EXITED"
        /\ th[t].id \in DOMAIN processes
        /\ children[processes[th[t].id].process].state = "reaped"
        /\ Len(th[t].emitted) = 1

\* The places of a call between its first write to the pipes of its session
\* and its last read from them.
PipePcs == {"init_send", "init_notify", "lt_send", "rr_loop", "rr_read"}
PipeUsers(p) ==
    {t \in Threads : th[t].pc \in PipePcs /\ CurSession(t).process = p}

\* Thread t takes from the pipe the reply that thread u waits for.
TakesReplyOf(t, u) ==
    /\ t # u
    /\ th[t].pc = "rr_read" /\ th[u].pc \in {"rr_loop", "rr_read"}
    /\ CurSession(t).process = CurSession(u).process
    /\ children[CurSession(t).process].out # <<>>
    /\ IsMatch(Head(children[CurSession(t).process].out), th[u].mid)
    /\ th'[t] # th[t]

\* C22: at most one call at a time writes to or reads from the pipes of a
\* session: two list_tools/execute_tool calls on one id never interleave
\* their writes and reads, and no call takes the reply another call waits
\* for.
C22_PipesExclusive ==
    [][/\ \A p \in DOMAIN children' : Cardinality(PipeUsers(p)') <= 1
       /\ \A t, u \in Threads : ~TakesReplyOf(t, u)]_vars

\* C22 witness: a tool call on an id has the pipes while another call on the
\* same id waits for the lock.
C22_Witness ==
    \E t, u \in Threads :
        /\ t # u /\ IsToolOp(t) /\ IsToolOp(u)
        /\ th[t].id = th[u].id
        /\ th[t].pc = "rr_read" /\ th[u].pc = "lt_lock"
        /\ children[CurSession(t).process].out # <<>>

\* C23: whatever the interleaving of connect, disconnect, list_tools and
\* execute_tool calls across distinct ids, neither get_connection_statuses
\* nor is_server_connected reports an id whose disconnect has returned and
\* for which no connect has been called since.
C23_NoStaleReport ==
    /\ \A c \in get_connection_statuses : c.server_id \notin disconnected
    /\ \A id \in ServerIds : is_server_connected(id) => id \notin disconnected

\* C23 witness: "x" has been disconnected while a connect of "y" runs on the
\* other thread, and "y" is registered.
C23_Witness ==
    /\ "x" \in disconnected
    /\ EventsOf("x", "connected") # {}
    /\ th["t2"].op = "connect" /\ th["t2"].pc \in {"cs_emit", "done"}
    /\ is_server_connected("y")

\* ------------------------------------------------------------ error details
\* The stderr of a child: a server started by command "B" prints a
\* diagnostic line on its stderr as soon as it runs, and the drain thread of
\* start() hands it to the session's stderr_receiver; "A" prints nothing.
WritesStderr(c) == c.cmd = "B"

\* The `details` field of the error a failing call of send_message_sync or
\* start builds with with_details.
ErrorDetails(code) ==
    CASE code = "CMD_NOT_FOUND" -> "not installed or not in your PATH"
      [] code = "NO_STDIN" -> "Cannot send message without stdin pipe"
      [] code = "WRITE_FAILED" -> "io error text"
      [] OTHER -> "none"

\* The details of the error connect_server returns: `send_initialize()?`
\* and the `Err(e) => Err(e)` arm hand on the error as it was built.
connect_server_details(code) == ErrorDetails(code)

\* C24: a connect that fails after its child was spawned, and whose child
\* had written to its stderr, returns an error whose details carry that
\* stderr output.
C24_ConnectErrorCarriesStderr ==
    \A t \in Threads :
        /\ DoneWith(t, "connect")
        /\ th[t].res # "Ok"
        /\ th[t].pid # 0
        /\ WritesStderr(children[th[t].pid])
        => connect_server_details(th[t].res) = "Process stderr"

\* C25: the step of list_tools / execute_tool that finds no session under
\* its id returns NO_PROCESS, with no write to any child, no event, and
\* both maps as they were.
C25_NoSessionFailsCleanly ==
    [][\A t \in Threads :
          /\ IsToolOp(t)
          /\ th[t].pc = "lt_lock"
          /\ th[t].id \notin DOMAIN processes
          /\ th'[t] # th[t]
          => /\ th'[t].pc = "done"
             /\ th'[t].res = "NO_PROCESS"
             /\ th'[t].emitted = <<>>
             /\ UNCHANGED <<processes, connections, children, events, procLock>>]_vars

\* C25 witness: a tool call has returned NO_PROCESS for its id while a
\* session with a running child is registered under the other id.
C25_Witness ==
    \E t \in Threads :
        /\ IsToolOp(t)
        /\ th[t].pc = "done"
        /\ th[t].res = "NO_PROCESS"
        /\ \E id \in DOMAIN processes : id # th[t].id /\ Live(processes[id])

\* ------------------------------------------------------------ analyze_error
\* An error string is the sequence of its characters.
\* str::to_lowercase, on the letters that occur.
UpperLetters == <<"A", "B", "C", "D", "E", "F", "G", "H", "I", "J", "K", "L", "M", "N", "O", "P", "Q", "R", "S", "T", "U", "V", "W", "X", "Y", "Z">>
LowerLetters == <<"a", "b", "c", "d", "e", "f", "g", "h", "i", "j", "k", "l", "m", "n", "o", "p", "q", "r", "s", "t", "u", "v", "w", "x", "y", "z">>
LowerChar(c) ==
    IF \E i \in DOMAIN UpperLetters : UpperLetters[i] = c
    THEN LowerLetters[CHOOSE i \in DOMAIN UpperLetters : UpperLetters[i] = c]
    ELSE c
to_lowercase(s) == [i \in DOMAIN s |-> LowerChar(s[i])]

\* str::contains: k occurs in s as a substring.
contains(s, k) ==
    \E i \in 1..(Len(s) - Len(k) + 1) : SubSeq(s, i, i + Len(k) - 1) = k

\* The patterns of the six tests of analyze_error, in the order of the code.
CommandNotFoundKeys ==
    {<<"n", "o", " ", "s", "u", "c", "h", " ", "f", "i", "l", "e", " ", "o", "r", " ", "d", "i", "r", "e", "c", "t", "o", "r", "y">>,
     <<"c", "o", "m", "m", "a", "n", "d", " ", "n", "o", "t", " ", "f", "o", "u", "n", "d">>}
PermissionKeys ==
    {<<"p", "e", "r", "m", "i", "s", "s", "i", "o", "n", " ", "d", "e", "n", "i", "e", "d">>}
TimeoutKeys ==
    {<<"t", "i", "m", "e", "o", "u", "t">>}
ProtocolKeys ==
    {<<"i", "n", "v", "a", "l", "i", "d", " ", "j", "s", "o", "n">>,
     <<"p", "r", "o", "t", "o", "c", "o", "l">>,
     <<"j", "s", "o", "n", "-", "r", "p", "c">>}
DatabaseKeys ==
    {<<"d", "a", "t", "a", "b", "a", "s", "e">>,
     <<"s", "q", "l", "i", "t", "e">>}
ConfigKeys ==
    {<<"c", "o", "n", "f", "i", "g">>,
     <<"m", "i", "s", "s", "i", "n", "g">>,
     <<"i", "n", "v", "a", "l", "i", "d">>}

ContainsAny(s, keys) == \E k \in keys : contains(s, k)

\* The same with the configuration test moved before the protocol test.
analyze_error_ConfigFirst(error_str) ==
    LET error_lower == to_lowercase(error_str)
    IN IF ContainsAny(error_lower, CommandNotFoundKeys) THEN "CMD_NOT_FOUND"
       ELSE IF ContainsAny(error_lower, PermissionKeys) THEN "PERMISSION_DENIED"
       ELSE IF ContainsAny(error_lower, TimeoutKeys) THEN "CONNECTION_TIMEOUT"
       ELSE IF ContainsAny(error_lower, ConfigKeys) THEN "CONFIG_ERROR"
       ELSE IF ContainsAny(error_lower, ProtocolKeys) THEN "PROTOCOL_ERROR"
       ELSE IF ContainsAny(error_lower, DatabaseKeys) THEN "DATABASE_ERROR"
       ELSE "SYSTEM_ERROR"

\* analyze_error: the code of the error it returns.
analyze_error(error_str) ==
    LET error_lower == to_lowercase(error_str)
    IN IF ContainsAny(error_lower, CommandNotFoundKeys) THEN "CMD_NOT_FOUND"
       ELSE IF ContainsAny(error_lower, PermissionKeys) THEN "PERMISSION_DENIED"
       ELSE IF ContainsAny(error_lower, TimeoutKeys) THEN "CONNECTION_TIMEOUT"
       ELSE IF ContainsAny(error_lower, ProtocolKeys) THEN "PROTOCOL_ERROR"
       ELSE IF ContainsAny(error_lower, DatabaseKeys) THEN "DATABASE_ERROR"
       ELSE IF ContainsAny(error_lower, ConfigKeys) THEN "CONFIG_ERROR"
       ELSE "SYSTEM_ERROR"

\* The error strings analyze_error is called with: up to MaxWords pieces
\* joined by single blanks.  The pieces are patterns in mixed case, parts of
\* patterns, and text that holds no pattern.
MaxWords == 2
Words ==
    {<<"N", "o", " ", "s", "u", "c", "h", " ", "f", "i", "l", "e", " ", "o", "r", " ", "d", "i", "r", "e", "c", "t", "o", "r", "y">>,
     <<"c", "o", "m", "m", "a", "n", "d">>,
     <<"n", "o", "t", " ", "f", "o", "u", "n", "d">>,
     <<"P", "e", "r", "m", "i", "s", "s", "i", "o", "n", " ", "d", "e", "n", "i", "e", "d">>,
     <<"T", "i", "m", "e", "o", "u", "t">>,
     <<"I", "n", "v", "a", "l", "i", "d">>,
     <<"J", "S", "O", "N">>,
     <<"j", "s", "o", "n", "-", "r", "p", "c">>,
     <<"p", "r", "o", "t", "o", "c", "o", "l">>,
     <<"d", "a", "t", "a", "b", "a", "s", "e">>,
     <<"S", "Q", "L", "i", "t", "e">>,
     <<"c", "o", "n", "f", "i", "g", "u", "r", "a", "t", "i", "o", "n">>,
     <<"m", "i", "s", "s", "i", "n", "g">>,
     <<"f", "a", "i", "l", "u", "r", "e">>}

RECURSIVE Join(_)
Join(ws) ==
    IF Len(ws) = 0 THEN <<>>
    ELSE IF Len(ws) = 1 THEN ws[1]
    ELSE ws[1] \o <<" ">> \o Join(Tail(ws))

ErrorStrings ==
    {Join(ws) : ws \in UNION {[1..n -> Words] : n \in 0..MaxWords}}

\* A caller of analyze_error: th[t] holds the argument and, once the call has
\* returned, the code of the result.
AnalyzeInit ==
    /\ processes = <<>>
    /\ connections = <<>>
    /\ procLock = "none"
    /\ children = <<>>
    /\ events = <<>>
    /\ \E s \in ErrorStrings :
          th = [t \in Threads |->
                  IF t = "t1"
                  THEN [pc |-> "call", op |-> "analyze_error", error_str |-> s,
                        res |-> "none"]
                  ELSE Idle]
    /\ calls = 0
    /\ disconnected = {}
    /\ snap = NoSnap

AnalyzeCall(t) ==
    /\ th[t].op = "analyze_error"
    /\ th[t].pc = "call"
    /\ th' = [th EXCEPT ![t].pc = "done", ![t].res = analyze_error(th[t].error_str)]
    /\ calls' = calls + 1
    /\ UNCHANGED <<processes, connections, procLock, children, events,
                   disconnected, snap>>

AnalyzeNext == \E t \in Threads : AnalyzeCall(t)

AnalyzeSpec == AnalyzeInit /\ [][AnalyzeNext]_vars

\* The rules in the order of the claim, each with its patterns and its code.
RuleKeys ==
    <<CommandNotFoundKeys, PermissionKeys, TimeoutKeys, ProtocolKeys,
      DatabaseKeys, ConfigKeys>>
RuleCodes ==
    <<"CMD_NOT_FOUND", "PERMISSION_DENIED", "CONNECTION_TIMEOUT",
      "PROTOCOL_ERROR", "DATABASE_ERROR", "CONFIG_ERROR">>
MatchingRules(s) ==
    {i \in DOMAIN RuleKeys : ContainsAny(to_lowercase(s), RuleKeys[i])}
Analyzed(t) == th[t].op = "analyze_error" /\ th[t].pc = "done"

\* C26: the code analyze_error returns is that of the earliest rule, in the
\* order command-not-found, permission-denied, timeout, protocol, database,
\* configuration, one of whose patterns occurs in the lowercased input, and
\* SYSTEM_ERROR when none occurs.
C26_FirstMatchWins ==
    \A t \in Threads :
        Analyzed(t) =>
            LET m == MatchingRules(th[t].error_str)
            IN th[t].res =
                 IF m = {} THEN "SYSTEM_ERROR"
                 ELSE RuleCodes[CHOOSE i \in m : \A j \in m : i <= j]

\* C26 witness: an input with "invalid json" in it, which matches the
\* protocol rule and the configuration rule, has been classified.
C26_Witness ==
    \E t \in Threads :
        /\ Analyzed(t)
        /\ {4, 6} \subseteq MatchingRules(th[t].error_str)
        /\ th[t].res = "PROTOCOL_ERROR"

\* C27: a call that has failed with SYSTEM_ERROR on a poisoned lock has left
\* the key sets of the session map and of the connection-info map as they
\* were when it started.
C27_PoisonedLockChangesNothing ==
    \A t \in Threads :
        /\ th[t].pc = "done"
        /\ th[t].res = "SYSTEM_ERROR"
        /\ snap.phase = "called" /\ snap.call = th[t].call
        => /\ DOMAIN processes = snap.pk
           /\ DOMAIN connections = snap.ck

ToolMethods == {"tools/list", "tools/call"}

\* C28: of the messages a child has received on its stdin, the first and
\* only the first is the initialize request, the second and only the second
\* is the notifications/initialized notification; so every tools/list and
\* tools/call request comes after both.
C28_HandshakeBeforeTools ==
    \A p \in DOMAIN children :
        \A i \in DOMAIN children[p].inp :
            /\ (i = 1) = (children[p].inp[i].method = "initialize")
            /\ (i = 2) = (children[p].inp[i].method = "notifications/initialized")
            /\ i > 2 => children[p].inp[i].method \in ToolMethods

\* C28 witness: a child has received the two handshake messages and then a
\* tools request.
C28_Witness ==
    \E p \in DOMAIN children :
        /\ Len(children[p].inp) > 2
        /\ children[p].inp[3].method \in ToolMethods

StatusOp(t) == th[t].op = "get_all_server_connection_statuses"

\* C29: get_all_server_connection_statuses never asks for the
\* MCP_PROCESSES lock while the guard it took at its start is still alive.
C29_NeverRelocksHeld ==
    \A t \in Threads :
        ~(StatusOp(t) /\ th[t].pc = "gs_relock" /\ procLock = t)

\* The session of child p is stored in the session map.
Stored(p) == \E i \in DOMAIN processes : processes[i].process = p
\* The session of child p is held in a local of a call of `op` in progress.
HeldBy(p, op) ==
    \E t \in Threads :
        /\ th[t].op = op
        /\ th[t].pc \notin {"idle", "done"}
        /\ th[t].proc # <<>>
        /\ th[t].proc[1].process = p

C31_ToolCallsKeepRegistrations ==
    [][(\E t \in Threads : IsToolOp(t)) =>
          /\ DOMAIN processes' = DOMAIN processes
          /\ connections' = connections]_vars

\* C31 witness: a tool call on a registered id has returned PROCESS_EXITED,
\* and the id is still in both maps.
C31_Witness ==
    \E t \in Threads :
        /\ IsToolOp(t) /\ th[t].pc = "done"
        /\ th[t].res = "PROCESS_EXITED"
        /\ th[t].id \in DOMAIN processes
        /\ th[t].id \in DOMAIN connections

\* C32: when a connect and a disconnect of the same id, made at the same
\* time or one after the other, have both returned and nothing else runs,
\* the session map and the connection-info map have the same key set.
C32_SameKeysAtRest ==
    (\E t, u \in Threads :
        /\ DoneWith(t, "connect") /\ DoneWith(u, "disconnect")
        /\ th[t].id = th[u].id)
    => DOMAIN processes = DOMAIN connections

\* Two connect calls on one id with different commands have both returned Ok.
BothConnected(t, u) ==
    /\ t # u
    /\ DoneWith(t, "connect") /\ DoneWith(u, "connect")
    /\ th[t].res = "Ok" /\ th[u].res = "Ok"
    /\ th[t].id = th[u].id
    /\ th[t].cmd # th[u].cmd

\* C33: when two concurrent connect calls for the same id with commands A
\* and B have both returned Ok, the id is registered with the session of one
\* of the two children, the other child has been killed and reaped, and the
\* ConnectionInfo of the id has the command of the child that is kept.
C33_OneChildAndItsInfo ==
    \A t, u \in Threads :
        BothConnected(t, u) =>
            LET id == th[t].id
            IN /\ id \in DOMAIN processes /\ id \in DOMAIN connections
               /\ processes[id].process \in {th[t].pid, th[u].pid}
               /\ \A p \in {th[t].pid, th[u].pid} \ {processes[id].process} :
                     children[p].state = "reaped"
               /\ connections[id].command = children[processes[id].process].cmd

\* A connect call of thread t is running on an id that was in both maps
\* when the call was made.
Reconnecting(t) ==
    /\ th[t].op = "connect" /\ th[t].pc # "done"
    /\ snap.phase = "connecting" /\ snap.call = th[t].call
    /\ th[t].id \in snap.pk \cap snap.ck

\* C34: a connect on a registered id reaches the spawn of its child with the
\* id out of both maps and the old child stopped (no running child is left
\* without a stored session); and when the call then returns an error, the
\* id is in neither map and the call has emitted no event.
C34_FailedReconnectUnregisters ==
    [][\A t \in Threads :
          Reconnecting(t) =>
              /\ (th[t].pc = "cs_start" /\ th'[t].pc # "cs_start") =>
                    /\ th[t].id \notin DOMAIN processes
                    /\ th[t].id \notin DOMAIN connections
                    /\ \A p \in DOMAIN children :
                          children[p].state = "running" => Stored(p)
              /\ (th'[t].pc = "done" /\ th'[t].res # "Ok") =>
                    /\ th[t].id \notin DOMAIN processes'
                    /\ th[t].id \notin DOMAIN connections'
                    /\ th'[t].emitted = <<>>
                    /\ \A p \in DOMAIN children' :
                          children'[p].state = "running" => Stored(p)']_vars

\* C34 witness: connect on an id that an earlier connect had registered, and
\* that no call has reported disconnected, has failed; the id is gone.
C34_Witness ==
    \E t \in Threads :
        /\ DoneWith(t, "connect") /\ th[t].res # "Ok"
        /\ EventsOf(th[t].id, "connected") # {}
        /\ EventsOf(th[t].id, "disconnected") = {}
        /\ th[t].id \notin DOMAIN processes
        /\ th[t].id \notin DOMAIN connections
        /\ th[t].emitted = <<>>

\* The line at the head of the child's stdout is a reply to the request
\* that timed out.
LateReplyNext(t) ==
    LET c == children[CurSession(t).process]
    IN c.out # <<>> /\ Head(c.out).kind = "json" /\ as_u64(Head(c.out)) = {TimedOutId}

\* C35: after the request TimedOutId has timed out, the read_response of a
\* later call that reads a reply with that id takes it off the pipe and
\* reads on, and no later list_tools or execute_tool returns such a reply.
C35_LateReplyDiscarded ==
    [][\A t \in Threads :
          (IsToolOp(t) /\ th[t].pc = "rr_read" /\ th'[t] # th[t]) =>
              /\ LateReplyNext(t) =>
                    /\ th'[t].pc = "rr_loop"
                    /\ children'[CurSession(t).process].out =
                          Tail(children[CurSession(t).process].out)
              /\ (th'[t].pc = "done" /\ th'[t].rr = "Ok") =>
                    /\ as_u64(th'[t].val) # {TimedOutId}
                    /\ th'[t].res = ToolResult(th[t].op, th'[t].val)]_vars

\* C35 witness: a later request waits in read_response, and the reply to the
\* request that timed out, a result, is the next line of the pipe.
C35_Witness ==
    \E t \in Threads :
        /\ IsToolOp(t) /\ th[t].pc = "rr_read"
        /\ U32Less(TimedOutId, th[t].mid)
        /\ LateReplyNext(t)
        /\ Head(children[CurSession(t).process].out).body = "result"

\* The pipe a thread reads, and what its next read_line returns.
PipeOf(t) == children[CurSession(t).process]
AtEof(t) == PipeOf(t).out = <<>> /\ PipeOf(t).state # "running"
ReadError(t) == PipeOf(t).out # <<>> /\ Head(PipeOf(t).out).kind = "badutf8"
\* read_response of thread t ends in this step.
ReadEnds(t) == th[t].pc \in {"rr_loop", "rr_read"} /\ th'[t].pc \notin {"rr_loop", "rr_read"}

\* C36: a read_line that returns zero bytes ends read_response with
\* STDOUT_CLOSED and one that fails ends it with READ_FAILED, whether the
\* deadline has passed or not; CONNECTION_TIMEOUT comes only from the head
\* of the loop once the deadline has passed, never from a read; a matching
\* line is returned Ok; and the count reported with the timeout is the
\* number of non-blank lines this call has taken off the pipe (it starts at
\* zero and goes up by one with each of them).
C36_ReadOutcomes ==
    [][\A t \in Threads :
          /\ (th[t].pc = "rr_read" /\ th'[t].pc # "rr_read") =>
                /\ AtEof(t) => ReadEnds(t) /\ th'[t].rr = "STDOUT_CLOSED"
                /\ ReadError(t) => ReadEnds(t) /\ th'[t].rr = "READ_FAILED"
                /\ ReadEnds(t) => th'[t].rr \in {"STDOUT_CLOSED", "READ_FAILED", "Ok"}
                /\ (ReadEnds(t) /\ th'[t].rr = "Ok") =>
                      /\ IsMatch(Head(PipeOf(t).out), th[t].mid)
                      /\ th'[t].val = Head(PipeOf(t).out)
                /\ (~AtEof(t) /\ ~ReadError(t)) =>
                      th'[t].all_output = th[t].all_output +
                          (IF Head(PipeOf(t).out).kind = "blank" THEN 0 ELSE 1)
          /\ (ReadEnds(t) /\ th'[t].rr = "CONNECTION_TIMEOUT") =>
                /\ th[t].pc = "rr_loop"
                /\ th[t].expired
                /\ th'[t].all_output = th[t].all_output
          /\ (th[t].pc \notin {"rr_loop", "rr_read"} /\ th'[t].pc = "rr_loop") =>
                th'[t].all_output = 0]_vars

\* C36 witness: a read_response has timed out after it took two non-blank
\* lines without a match off the pipe.
C36_Witness ==
    \E t \in Threads :
        /\ IsToolOp(t) /\ th[t].pc = "done"
        /\ th[t].rr = "CONNECTION_TIMEOUT"
        /\ th[t].all_output = 2

\* A session that holds no child and no pipe: as MCPProcess::new made it, or
\* as stop() left it.
Unusable(s) == s.process = 0 /\ ~s.stdin /\ ~s.stdout

\* C37: a new session holds nothing, and stop() leaves the session holding
\* nothing; on such a session send_message_sync returns NO_STDIN,
\* read_response returns NO_STDOUT and check_process_status returns false,
\* and none of the three writes to, reads from or reaps a child.
C37_UnusableSessionFailsCleanly ==
    [][\A t \in Threads :
          (th[t].proc # <<>> /\ calls' = calls + 1) =>
              /\ th'[t].op = "stop" => Unusable(th'[t].proc[1])
              /\ (calls = 0 \/ th[t].op = "stop") => Unusable(th[t].proc[1])
              /\ Unusable(th[t].proc[1]) =>
                    /\ th'[t].op = "send_message_sync" =>
                          th'[t].res = "NO_STDIN" /\ children' = children
                    /\ th'[t].op = "read_response" =>
                          th'[t].res = "NO_STDOUT" /\ children' = children
                    /\ th'[t].op = "check_process_status" =>
                          th'[t].res = "false" /\ children' = children]_vars

\* C37 witness: on a session that was started and stopped, read_response
\* has returned NO_STDOUT.
C37_Witness ==
    \E t \in Threads :
        /\ th[t].op = "read_response" /\ th[t].res = "NO_STDOUT"
        /\ th[t].proc # <<>> /\ Unusable(th[t].proc[1])
        /\ \E p \in DOMAIN children : children[p].state = "reaped"

\* C38: a list_tools or execute_tool whose read_response returned a matched
\* response returns Ok, with that response, when the response has a result
\* field, also when it has an error field as well; without a result field
\* and with an error field list_tools fails with PROTOCOL_ERROR and
\* execute_tool with TOOL_EXECUTION_ERROR; with neither field both fail
\* with PROTOCOL_ERROR.
C38_ResultThenError ==
    \A t \in Threads :
        (IsToolOp(t) /\ th[t].pc = "done" /\ th[t].rr = "Ok") =>
            /\ IsMatch(th[t].val, th[t].mid)
            /\ th[t].val.body \in {"result", "both"} => th[t].res = "Ok"
            /\ th[t].val.body = "error" =>
                  th[t].res = IF th[t].op = "list_tools" THEN "PROTOCOL_ERROR"
                              ELSE "TOOL_EXECUTION_ERROR"
            /\ th[t].val.body = "neither" => th[t].res = "PROTOCOL_ERROR"

\* C38 witness: execute_tool has returned Ok on a matched response that has
\* a result field and an error field.
C38_Witness ==
    \E t \in Threads :
        /\ th[t].op = "execute_tool" /\ th[t].pc = "done" /\ th[t].rr = "Ok"
        /\ th[t].val.body = "both"
        /\ th[t].res = "Ok"

\* C39: when the reader thread has read the child's stderr to end of file, a
\* collect_stderr call that takes the thread's final message off the
\* channel returns Some of all the lines the child wrote, in order, joined
\* by "\n", whatever earlier calls took.
C39_FinalMessageIsWhole ==
    \A t, d \in Threads :
        /\ th[t].op = "collect_stderr" /\ th[t].pc = "done"
        /\ th[t].took_final
        /\ th[d].op = "drain" /\ th[d].eof
        => /\ th[t].some
           /\ th[t].result = join(children[1].wrote)

\* C39 witness: the child wrote two lines and closed its stderr, the reader
\* thread has ended, an earlier collect_stderr took the lines off the
\* channel, and this call has taken the final message alone.
C39_Witness ==
    \E t, d \in Threads :
        /\ th[t].op = "collect_stderr" /\ th[t].pc = "done"
        /\ th[t].took_final /\ th[t].lines = <<>>
        /\ th[t].call > 1
        /\ th[d].op = "drain" /\ th[d].eof /\ th[d].pc = "exited"
        /\ Len(children[1].wrote) = 2

\* C40: while the session exists, every line the child writes to its stderr
\* is eventually taken off the pipe by the reader thread, whether or not
\* collect_stderr is called.
C40_EveryLineDrained ==
    (children[1].err # <<>>) ~> (children[1].err = <<>>)
====
